---- MODULE Spec2Model ----
(***************************************************************************)
(* Model of icons/lvgl_to_png.py: the conversion of an LVGL C bitmap file  *)
(* (1-bit indexed, with a colour palette) into a PNG image.                *)
(*                                                                         *)
(* The text of the input file is represented by what the program's regular *)
(* expressions find in it, in order of occurrence:                         *)
(*   pal     the matches of color_pattern, each the five captured groups   *)
(*           (decimal index string, four two-digit hex strings);           *)
(*   arrays  the matches of bitmap_pattern, each the captured identifier   *)
(*           and the two-digit hex literals of the captured byte list;     *)
(*   descs   the `const lv_img_dsc_t <name> = { ... }` blocks, each with   *)
(*           the digits captured by the .w and .h patterns (<<>> when the  *)
(*           pattern does not match) and the token captured by .cf ("").   *)
(* Digit strings are sequences of digits; int(s) and int(s, 16) are        *)
(* computed from them.                                                     *)
(***************************************************************************)
EXTENDS Integers, Sequences, FiniteSets, TLC

VARIABLES
    file,         \* the input path on disk: [exists, content]
    argOutput,    \* args.output ("" when the option is not given)
    pc,           \* position of main
    bitmap_info,  \* the dictionary returned by parse_lvgl_c_file
    output_path,  \* main's output_path
    pixels,       \* img.load(): (x, y) -> RGBA
    log,          \* the loop iterations executed so far, in order
    x,            \* loop variable of the inner loop
    y,            \* loop variable of the outer loop
    written,      \* paths of the files written by img.save
    exitStatus,   \* status of the process once pc = "exit" (-1 while running)
    error         \* message of the exception main caught ("" if none)

vars == <<file, argOutput, pc, bitmap_info, output_path, pixels, log, x, y,
          written, exitStatus, error>>

-----------------------------------------------------------------------------
(* Bounds of the explored inputs *)

MaxW == 9
MaxH == 2
MaxStream == 3
MaxPal == 2
MaxArrays == 2
MaxDescs == 2
MaxHex == 10

-----------------------------------------------------------------------------
(* Python helpers *)

RECURSIVE ParseInt(_, _)
\* int(s, base) of a non-empty digit string
ParseInt(s, base) ==
    IF s = <<>> THEN 0
    ELSE base * ParseInt(SubSeq(s, 1, Len(s) - 1), base) + s[Len(s)]

\* d.get(k, default)
DictGet(d, k, default) == IF k \in DOMAIN d THEN d[k] ELSE default

\* s[n:] of a Python list
SliceFrom(s, n) == IF n >= Len(s) THEN <<>> ELSE SubSeq(s, n + 1, Len(s))

\* (v >> n) & 1
ShiftAnd1(v, n) == (v \div (2 ^ n)) % 2

Black == <<0, 0, 0, 255>>
Transparent == <<0, 0, 0, 0>>

-----------------------------------------------------------------------------
(* parse_lvgl_c_file *)

ErrBitmap == "Could not find bitmap data array"
ErrDescriptor == "Could not find image descriptor"
ErrDimensions == "Could not find image dimensions"

\* variant: an index already stored is not overwritten
PaletteStoreKeepFirst(colors, m) ==
    LET index == ParseInt(m.index, 10)
        rgba == <<ParseInt(m.r, 16), ParseInt(m.g, 16),
                  ParseInt(m.b, 16), ParseInt(m.a, 16)>>
    IN  [i \in (DOMAIN colors) \cup {index} |->
            IF i \in DOMAIN colors THEN colors[i] ELSE rgba]

\* colors[index] = (r, g, b, a) of one match
PaletteStore(colors, m) ==
    LET index == ParseInt(m.index, 10)
        rgba == <<ParseInt(m.r, 16), ParseInt(m.g, 16),
                  ParseInt(m.b, 16), ParseInt(m.a, 16)>>
    IN  [i \in (DOMAIN colors) \cup {index} |->
            IF i = index THEN rgba ELSE colors[i]]

RECURSIVE PaletteScan(_)
\* the loop over re.finditer(color_pattern, content)
PaletteScan(matches) ==
    IF matches = <<>> THEN <<>>
    ELSE PaletteStore(PaletteScan(SubSeq(matches, 1, Len(matches) - 1)),
                      matches[Len(matches)])

\* variant: the last match instead of the first
SearchBitmapLast(arrays) == IF arrays = <<>> THEN <<>> ELSE <<arrays[Len(arrays)]>>

\* re.search(bitmap_pattern, content): the first match, <<>> if none
SearchBitmap(arrays) == IF arrays = <<>> THEN <<>> ELSE <<arrays[1]>>

\* variant: hex_values[4:]
SkipPaletteHalf(hex_values) == SliceFrom(hex_values, 4)

\* hex_values[8:]
SkipPalette(hex_values) == SliceFrom(hex_values, 8)

\* bytes(int(val, 16) for val in ...)
ToBytes(hex_values) == [i \in 1..Len(hex_values) |-> ParseInt(hex_values[i], 16)]

\* variant: the first block, whatever its name
SearchDescAnyName(descs, bitmap_name) == IF descs = <<>> THEN <<>> ELSE <<descs[1]>>

\* re.search(desc_pattern, content): the first block named bitmap_name
SearchDesc(descs, bitmap_name) ==
    LET hits == {i \in 1..Len(descs) : descs[i].name = bitmap_name}
    IN  IF hits = {} THEN <<>>
        ELSE <<descs[CHOOSE i \in hits : \A j \in hits : i <= j]>>

\* variant: not width_match and not height_match
DimensionsBothMissing(d) == d.w = <<>> /\ d.h = <<>>

\* not width_match or not height_match
DimensionsMissing(d) == d.w = <<>> \/ d.h = <<>>

\* cf_match.group(1) if cf_match else "unknown"
ColorFormat(d) == IF d.cf = "" THEN "unknown" ELSE d.cf

NoInfo == [name |-> "", width |-> 0, height |-> 0, color_format |-> "",
           colors |-> <<>>, bitmap_data |-> <<>>]

Raise(msg) == [ok |-> FALSE, error |-> msg, info |-> NoInfo]

parse_lvgl_c_file(content) ==
    LET colors == PaletteScan(content.pal)
        bitmap_match == SearchBitmap(content.arrays)
    IN  IF bitmap_match = <<>> THEN Raise(ErrBitmap)
        ELSE
        LET bitmap_name == bitmap_match[1].name
            hex_values == bitmap_match[1].hex
            bitmap_bytes == ToBytes(SkipPalette(hex_values))
            desc_match == SearchDesc(content.descs, bitmap_name)
        IN  IF desc_match = <<>> THEN Raise(ErrDescriptor)
            ELSE IF DimensionsMissing(desc_match[1]) THEN Raise(ErrDimensions)
            ELSE [ok |-> TRUE, error |-> "",
                  info |-> [name |-> bitmap_name,
                            width |-> ParseInt(desc_match[1].w, 10),
                            height |-> ParseInt(desc_match[1].h, 10),
                            color_format |-> ColorFormat(desc_match[1]),
                            colors |-> colors,
                            bitmap_data |-> bitmap_bytes]]

-----------------------------------------------------------------------------
(* convert_1bit_indexed_to_png *)

\* variant: width // 8 + 1
BytesPerRowPlusOne(width) == (width \div 8) + 1

\* (width + 7) // 8
BytesPerRow(width) == (width + 7) \div 8

\* y * bytes_per_row + (x // 8)
ByteIndex(width, px, py) == py * BytesPerRow(width) + (px \div 8)

\* variant: x % 8, least significant bit first
BitIndexLsb(px) == px % 8

\* 7 - (x % 8)
BitIndex(px) == 7 - (px % 8)

\* variant: byte_index <= len(bitmap_data)
InBoundsInclusive(byte_index, bitmap_data) == byte_index <= Len(bitmap_data)

\* byte_index < len(bitmap_data)
InBounds(byte_index, bitmap_data) == byte_index < Len(bitmap_data)

\* bitmap_data[byte_index]: the byte, or -1 where Python raises IndexError
ReadByte(bitmap_data, byte_index) ==
    IF byte_index >= 0 /\ byte_index < Len(bitmap_data)
    THEN bitmap_data[byte_index + 1]
    ELSE -1

\* variant: colors.get(bit_value, (0, 0, 0, 0))
PaletteColorTransparent(colors, bit_value) == DictGet(colors, bit_value, Transparent)

\* colors.get(bit_value, (0, 0, 0, 255))
PaletteColor(colors, bit_value) == DictGet(colors, bit_value, Black)

\* colors.get(0, (0, 0, 0, 255))
OutOfBoundsColor(colors) == DictGet(colors, 0, Black)

\* the body of the loops for one (x, y): the branch taken, the offset used
\* and the colour stored ("raise" when the read raises IndexError)
PixelStep(info, px, py) ==
    LET byte_index == ByteIndex(info.width, px, py)
        bit_index == BitIndex(px)
    IN  IF InBounds(byte_index, info.bitmap_data)
        THEN LET byte_value == ReadByte(info.bitmap_data, byte_index)
             IN  IF byte_value < 0
                 THEN [branch |-> "raise", byte_index |-> byte_index,
                       bit_value |-> 0, color |-> Transparent]
                 ELSE LET bit_value == ShiftAnd1(byte_value, bit_index)
                      IN  [branch |-> "in", byte_index |-> byte_index,
                           bit_value |-> bit_value,
                           color |-> PaletteColor(info.colors, bit_value)]
        ELSE [branch |-> "out", byte_index |-> byte_index, bit_value |-> 0,
              color |-> OutOfBoundsColor(info.colors)]

\* variant: a step of two
NextXSkip(width, px) == px + 2

\* the next x of range(width); width marks the end of the inner loop
NextX(width, px) == px + 1

-----------------------------------------------------------------------------
(* main *)

\* os.path.splitext(os.path.basename(args.input_file))[0] + ".png"
DefaultOutput(f) == f.base \o ".png"

CheckInput ==
    /\ pc = "start"
    /\ IF ~file.exists
       THEN /\ pc' = "exit"
            /\ exitStatus' = 1
       ELSE /\ pc' = "parse"
            /\ UNCHANGED exitStatus
    /\ UNCHANGED <<file, argOutput, bitmap_info, output_path, pixels, log,
                   x, y, written, error>>

Parse ==
    /\ pc = "parse"
    /\ LET res == parse_lvgl_c_file(file.content)
       IN  IF res.ok
           THEN /\ bitmap_info' = res.info
                /\ pc' = "choose"
                /\ UNCHANGED <<error, exitStatus>>
           ELSE /\ error' = res.error
                /\ exitStatus' = 1
                /\ pc' = "exit"
                /\ UNCHANGED bitmap_info
    /\ UNCHANGED <<file, argOutput, output_path, pixels, log, x, y, written>>

ChooseOutput ==
    /\ pc = "choose"
    /\ output_path' = IF argOutput # "" THEN argOutput ELSE DefaultOutput(file)
    /\ pc' = "convert"
    /\ UNCHANGED <<file, argOutput, bitmap_info, pixels, log, x, y, written,
                   exitStatus, error>>

\* Image.new('RGBA', (width, height)) and the entry of the loops
ConvertBegin ==
    /\ pc = "convert"
    /\ pixels' = [c \in (0..(bitmap_info.width - 1)) \X (0..(bitmap_info.height - 1))
                    |-> Transparent]
    /\ x' = 0
    /\ y' = 0
    /\ pc' = IF bitmap_info.width = 0 \/ bitmap_info.height = 0
             THEN "save" ELSE "loop"
    /\ UNCHANGED <<file, argOutput, bitmap_info, output_path, log, written,
                   exitStatus, error>>

\* one iteration of the inner loop
ConvertPixel ==
    /\ pc = "loop"
    /\ LET st == PixelStep(bitmap_info, x, y)
           nx == NextX(bitmap_info.width, x)
       IN  /\ log' = Append(log, [x |-> x, y |-> y, branch |-> st.branch,
                                  byte_index |-> st.byte_index,
                                  bit_value |-> st.bit_value])
           /\ IF st.branch = "raise"
              THEN /\ error' = "index out of range"
                   /\ exitStatus' = 1
                   /\ pc' = "exit"
                   /\ UNCHANGED <<pixels, x, y>>
              ELSE /\ pixels' = [pixels EXCEPT ![<<x, y>>] = st.color]
                   /\ IF nx < bitmap_info.width
                      THEN /\ x' = nx
                           /\ UNCHANGED <<y, pc>>
                      ELSE /\ x' = 0
                           /\ y' = y + 1
                           /\ pc' = IF y + 1 < bitmap_info.height
                                    THEN "loop" ELSE "save"
                   /\ UNCHANGED <<error, exitStatus>>
    /\ UNCHANGED <<file, argOutput, bitmap_info, output_path, written>>

\* img.save(output_path, 'PNG') succeeds; main returns
Save ==
    /\ pc = "save"
    /\ written' = written \cup {output_path}
    /\ exitStatus' = 0
    /\ pc' = "exit"
    /\ UNCHANGED <<file, argOutput, bitmap_info, output_path, pixels, log,
                   x, y, error>>

\* img.save raises (the path cannot be opened for writing); main catches it
SaveFails ==
    /\ pc = "save"
    /\ error' = "cannot write"
    /\ exitStatus' = 1
    /\ pc' = "exit"
    /\ UNCHANGED <<file, argOutput, bitmap_info, output_path, pixels, log,
                   x, y, written>>

-----------------------------------------------------------------------------
(* The explored input files *)

\* the sequences over S of length at most n
SeqUpTo(S, n) == UNION {[1..k -> S] : k \in 0..n}

RECURSIVE DecStr(_)
\* the decimal digits of n
DecStr(n) == IF n < 10 THEN <<n>> ELSE DecStr(n \div 10) \o <<n % 10>>

\* two-digit hex literals: 0xb0, 0xb7, 0x48, 0xff, 0x00
HexB0 == <<11, 0>>
HexB7 == <<11, 7>>
Hex48 == <<4, 8>>
HexFF == <<15, 15>>
Hex00 == <<0, 0>>

ByteSet == {HexB0, HexB7, Hex48}

\* the palette bytes at the start of a 1-bit array: white, then black
Prefix8 == <<HexFF, HexFF, HexFF, HexFF, Hex00, Hex00, Hex00, HexFF>>

WhiteAt(ix) == [index |-> ix, r |-> HexFF, g |-> HexFF, b |-> HexFF, a |-> HexFF]
BlackAt(ix) == [index |-> ix, r |-> Hex00, g |-> Hex00, b |-> Hex00, a |-> HexFF]
RedAt(ix) == [index |-> ix, r |-> HexFF, g |-> Hex00, b |-> Hex00, a |-> HexFF]

StdPalette == <<WhiteAt(<<0>>), BlackAt(<<1>>)>>
PixelPalettes == {<<>>, <<WhiteAt(<<0>>)>>, StdPalette}

CfToken == "LV_IMG_CF_INDEXED_1BIT"

OneArray(hex) == <<[name |-> "icon", hex |-> hex]>>
OneDesc(w, h) == <<[name |-> "icon", w |-> DecStr(w), h |-> DecStr(h), cf |-> CfToken]>>

\* well-formed files of every size, stream and usual palette
PixelFiles ==
    {[pal |-> p, arrays |-> OneArray(Prefix8 \o s), descs |-> OneDesc(w, h)] :
        p \in PixelPalettes, s \in SeqUpTo(ByteSet, MaxStream),
        w \in 0..MaxW, h \in 0..MaxH}

\* files with any palette comments around one 8x1 bitmap
PalChoices ==
    UNION {{WhiteAt(ix), BlackAt(ix), RedAt(ix)} : ix \in {<<0>>, <<1>>, <<0, 1>>, <<2>>}}
PaletteFiles ==
    {[pal |-> p, arrays |-> OneArray(Prefix8 \o <<HexB0>>), descs |-> OneDesc(8, 1)] :
        p \in SeqUpTo(PalChoices, MaxPal)}

\* files whose array holds any number of hex literals
HexAt(i) == <<i % 16, (3 * i) % 16>>
HexFiles ==
    {[pal |-> p, arrays |-> OneArray([i \in 1..n |-> HexAt(i)]), descs |-> OneDesc(8, 1)] :
        p \in PixelPalettes, n \in 0..MaxHex}

\* files with any number of arrays and descriptor blocks, fields missing or not
Names == {"a", "b"}
ArrayChoices == {[name |-> n, hex |-> Prefix8 \o <<HexB0>>] : n \in Names}
DescChoices ==
    {[name |-> n, w |-> f[1], h |-> f[2], cf |-> f[3]] :
        n \in Names,
        f \in {<<<<1>>, <<1>>, CfToken>>, <<<<1>>, <<1>>, "">>,
               <<<<>>, <<1>>, CfToken>>, <<<<1>>, <<>>, "">>}}
StructFiles ==
    {[pal |-> p, arrays |-> a, descs |-> d] :
        p \in {<<>>, StdPalette},
        a \in SeqUpTo(ArrayChoices, MaxArrays),
        d \in SeqUpTo(DescChoices, MaxDescs)}

NoContent == [pal |-> <<>>, arrays |-> <<>>, descs |-> <<>>]

Init ==
    /\ \/ file = [exists |-> FALSE, base |-> "icon", content |-> NoContent]
       \/ \E c \in PixelFiles \cup PaletteFiles \cup HexFiles \cup StructFiles :
             file = [exists |-> TRUE, base |-> "icon", content |-> c]
    /\ argOutput \in {"", "out.png"}
    /\ pc = "start"
    /\ bitmap_info = NoInfo
    /\ output_path = ""
    /\ pixels = <<>>
    /\ log = <<>>
    /\ x = 0
    /\ y = 0
    /\ written = {}
    /\ exitStatus = -1
    /\ error = ""

Next ==
    \/ CheckInput
    \/ Parse
    \/ ChooseOutput
    \/ ConvertBegin
    \/ ConvertPixel
    \/ Save
    \/ SaveFails

Spec == Init /\ [][Next]_vars

-----------------------------------------------------------------------------
(* Vocabulary of the properties, stated from the file and the descriptor *)

W == bitmap_info.width
H == bitmap_info.height
Data == bitmap_info.bitmap_data
Colors == bitmap_info.colors
Cells == (0..(W - 1)) \X (0..(H - 1))

\* ceil(width / 8)
Stride(w) == IF w % 8 = 0 THEN w \div 8 ELSE (w \div 8) + 1

\* byte offset of pixel c
Offset(c) == c[2] * Stride(W) + (c[1] \div 8)

\* the bit of byte v at position k counted from the most significant bit
MsbBit(v, k) == (v \div (2 ^ (7 - k))) % 2

\* the bit of the stream that pixel c maps to (c's offset is inside the stream)
BitOf(c) == MsbBit(Data[Offset(c) + 1], c[1] % 8)

\* extraction returned a descriptor in this run
Extracted == pc \in {"choose", "convert", "loop", "save"}
                \/ (pc = "exit" /\ bitmap_info # NoInfo)

\* extraction raised in this run
ExtractFailed == pc = "exit" /\ error \in {ErrBitmap, ErrDescriptor, ErrDimensions}

IndexErrorRaised == error = "index out of range"

\* the loops are over and every store was made
GridDone == (pc = "save" \/ (pc = "exit" /\ bitmap_info # NoInfo)) /\ ~IndexErrorRaised

\* the loop body has run for pixel c
Processed(c) ==
    \/ GridDone
    \/ pc = "loop" /\ (c[2] < y \/ (c[2] = y /\ c[1] < x))

\* the log entry of pixel c
EntriesOf(c) == {k \in 1..Len(log) : log[k].x = c[1] /\ log[k].y = c[2]}

White == <<255, 255, 255, 255>>

\* what the input text holds
Arrays == file.content.arrays
Descs == file.content.descs
ArrayAbsent == Arrays = <<>>
BlocksOfArray == {i \in 1..Len(Descs) : Descs[i].name = Arrays[1].name}
DescAbsent == ~ArrayAbsent /\ BlocksOfArray = {}
FirstBlock == Descs[CHOOSE i \in BlocksOfArray : \A j \in BlocksOfArray : i <= j]
DimsAbsent == ~ArrayAbsent /\ ~DescAbsent /\ (FirstBlock.w = <<>> \/ FirstBlock.h = <<>>)

-----------------------------------------------------------------------------
(* C1: every processed pixel whose byte offset y*ceil(width/8) + (x div 8)  *)
(* is inside the stream holds the palette entry of the bit                  *)
(* (stream[offset] >> (7 - x mod 8)) & 1, most significant bit first; the   *)
(* 8x1 stream [0xB0] with palette {0: white, 1: black} decodes to black,    *)
(* white, black, black, white, white, white, white.                         *)
C1_Scenario ==
    /\ W = 8 /\ H = 1 /\ Data = <<176>>
    /\ DOMAIN Colors = {0, 1} /\ Colors[0] = White /\ Colors[1] = Black

C1_MsbFirst ==
    /\ \A c \in Cells :
          (Processed(c) /\ Offset(c) < Len(Data) /\ BitOf(c) \in DOMAIN Colors)
             => pixels[c] = Colors[BitOf(c)]
    /\ (C1_Scenario /\ pc \in {"save", "exit"}) =>
          [i \in 1..8 |-> pixels[<<i - 1, 0>>]]
             = <<Black, White, Black, Black, White, White, White, White>>

C1_Witness == C1_Scenario /\ pc = "exit" /\ exitStatus = 0

(* C2: with a stream of exactly height*stride bytes every pixel is resolved *)
(* by an in-bounds read and none takes the out-of-bounds branch; with a     *)
(* stream one byte short the decode does not fail, exactly the pixels of    *)
(* the last row that map to the missing last byte hold the palette entry of *)
(* index 0 (opaque black if unmapped) and all others come from in-bounds    *)
(* reads.                                                                   *)
C2_Exact ==
    Len(Data) = H * Stride(W) =>
        /\ \A k \in 1..Len(log) :
              log[k].branch = "in" /\ log[k].byte_index \in 0..(Len(Data) - 1)
        /\ GridDone => \A c \in Cells : EntriesOf(c) # {}

MapsToLastByte(c) == c[2] = H - 1 /\ c[1] \div 8 = Stride(W) - 1

C2_OneShort ==
    (Extracted /\ Len(Data) = H * Stride(W) - 1) =>
        /\ ~IndexErrorRaised
        /\ \A k \in 1..Len(log) :
              /\ log[k].branch = (IF MapsToLastByte(<<log[k].x, log[k].y>>)
                                  THEN "out" ELSE "in")
              /\ log[k].branch = "in" => log[k].byte_index \in 0..(Len(Data) - 1)
        /\ GridDone => \A c \in Cells :
              /\ EntriesOf(c) # {}
              /\ MapsToLastByte(c) =>
                    pixels[c] = (IF 0 \in DOMAIN Colors THEN Colors[0] ELSE Black)

C2_StreamBoundary == (Extracted => C2_Exact) /\ C2_OneShort

C2_Witness ==
    /\ pc = "exit" /\ exitStatus = 0
    /\ W = 9 /\ H = 1 /\ Len(Data) = 1
    /\ 0 \in DOMAIN Colors /\ pixels[<<8, 0>>] = Colors[0]

(* C3: the output file is written only after extraction has succeeded: when *)
(* the input path does not exist, or the bitmap array, the descriptor block *)
(* or the width or height is missing, no file is ever written and the run   *)
(* ends with exit status 1.                                                 *)
C3_BadInput == ~file.exists \/ ArrayAbsent \/ DescAbsent \/ DimsAbsent

C3_NoOutputOnFailure ==
    /\ written # {} => (file.exists /\ ~C3_BadInput /\ bitmap_info # NoInfo)
    /\ C3_BadInput =>
          /\ written = {}
          /\ \/ pc = "exit" /\ exitStatus = 1
             \/ pc \in {"start", "parse"} /\ ENABLED Next

C3_Witness ==
    /\ pc = "exit" /\ exitStatus = 1 /\ error = ErrBitmap
    /\ ArrayAbsent /\ Descs # <<>> /\ written = {}

(* C4: extraction fails exactly when the bitmap array, or the descriptor    *)
(* block named after the array, or the width or height of that block is     *)
(* absent; the cause reported is that of the first missing element in that  *)
(* order and the three causes differ; an absent .cf or an empty palette     *)
(* never makes it fail, and with .cf absent the colour format is            *)
(* "unknown".                                                               *)
C4_ExtractErrors ==
    (file.exists /\ pc \notin {"start", "parse"}) =>
        /\ ExtractFailed <=> (ArrayAbsent \/ DescAbsent \/ DimsAbsent)
        /\ Extracted <=> ~(ArrayAbsent \/ DescAbsent \/ DimsAbsent)
        /\ ArrayAbsent => error = ErrBitmap
        /\ DescAbsent => error = ErrDescriptor
        /\ DimsAbsent => error = ErrDimensions
        /\ Cardinality({ErrBitmap, ErrDescriptor, ErrDimensions}) = 3
        /\ (Extracted /\ FirstBlock.cf = "") => bitmap_info.color_format = "unknown"
        /\ (Extracted /\ FirstBlock.cf # "") => bitmap_info.color_format = FirstBlock.cf

C4_Witness ==
    /\ pc = "exit" /\ error = ErrDescriptor
    /\ Arrays # <<>> /\ Descs # <<>> /\ file.content.pal = <<>>

(* C5 as stated: whenever the array is found, the stream has exactly        *)
(* (number of hex literals) - 8 bytes.                                      *)
HexCount == Len(Arrays[1].hex)

C5_AsStated == Extracted => Len(Data) = HexCount - 8

(* C5, amended: the stream has max(0, number of hex literals - 8) bytes and *)
(* is the values of the literals with the first 8 removed, in order (empty  *)
(* when there are 8 or fewer), whatever the palette scan found; fewer than  *)
(* 8 literals do not make extraction fail.                                  *)
HexValue(h) == 16 * h[1] + h[2]

C5_StreamLength ==
    /\ Extracted =>
          /\ Len(Data) = (IF HexCount > 8 THEN HexCount - 8 ELSE 0)
          /\ \A i \in 1..Len(Data) : Data[i] = HexValue(Arrays[1].hex[i + 8])
    /\ (file.exists /\ pc \notin {"start", "parse"} /\ ~ArrayAbsent
           /\ ~DescAbsent /\ ~DimsAbsent) => Extracted

C5_Witness ==
    /\ Extracted /\ HexCount \in 1..7 /\ Data = <<>>
    /\ pc = "exit" /\ exitStatus = 0

C5_WitnessLong == Extracted /\ HexCount = 10 /\ Len(Data) = 2

(* C6: a pixel read in bounds whose bit value has no palette entry is       *)
(* opaque black and the decode does not fail; with a palette holding only   *)
(* index 0, pixels of bit 1 are opaque black and pixels of bit 0 hold the   *)
(* colour of index 0.                                                       *)
C6_UnmappedIndex ==
    /\ Extracted => ~IndexErrorRaised
    /\ \A c \in Cells :
          (Processed(c) /\ Offset(c) < Len(Data)) =>
             /\ BitOf(c) \notin DOMAIN Colors => pixels[c] = Black
             /\ DOMAIN Colors = {0} =>
                   pixels[c] = (IF BitOf(c) = 1 THEN Black ELSE Colors[0])

C6_Witness ==
    /\ pc = "exit" /\ exitStatus = 0 /\ DOMAIN Colors = {0} /\ Colors[0] = White
    /\ \E c \in Cells : Offset(c) < Len(Data) /\ BitOf(c) = 1 /\ pixels[c] = Black
    /\ \E c \in Cells : Offset(c) < Len(Data) /\ BitOf(c) = 0 /\ pixels[c] = White

(* C7 as stated: extraction returns a descriptor only when exactly one      *)
(* bitmap array is present, and fails when there is none or more than one.  *)
C7_AsStated ==
    (file.exists /\ pc \notin {"start", "parse"}) =>
        /\ Extracted => Len(Arrays) = 1
        /\ Len(Arrays) # 1 => ExtractFailed

(* C7, amended: extraction fails for want of a bitmap array exactly when no *)
(* array is present; with one or more arrays it uses the first one, and     *)
(* returns the descriptor named after it when that array's descriptor block *)
(* with width and height is present.                                        *)
C7_FirstArrayWins ==
    (file.exists /\ pc \notin {"start", "parse"}) =>
        /\ (pc = "exit" /\ error = ErrBitmap) <=> Len(Arrays) = 0
        /\ Extracted =>
              /\ Len(Arrays) >= 1
              /\ bitmap_info.name = Arrays[1].name
              /\ Len(Data) = Len(SliceFrom(Arrays[1].hex, 8))
        /\ (Len(Arrays) >= 1 /\ ~DescAbsent /\ ~DimsAbsent) => Extracted

C7_Witness ==
    /\ Extracted /\ Len(Arrays) = 2 /\ Arrays[1].name # Arrays[2].name
    /\ bitmap_info.name = Arrays[1].name

(* C8: the decode never fails: the loops visit the width*height cells in    *)
(* row-major order, each exactly once, no read is outside the stream, and   *)
(* when they end the grid is fully populated.                               *)
C8_LoopComplete ==
    /\ ~IndexErrorRaised
    /\ Extracted =>
          /\ Len(log) <= W * H
          /\ \A k \in 1..Len(log) :
                /\ log[k].x = (k - 1) % W
                /\ log[k].y = (k - 1) \div W
                /\ log[k].branch \in {"in", "out"}
                /\ log[k].branch = "in" => log[k].byte_index \in 0..(Len(Data) - 1)
          /\ pc = "loop" => (Len(log) < W * H /\ ENABLED ConvertPixel
                                /\ Len(log) = y * W + x)
          /\ pc = "convert" => ENABLED ConvertBegin
          /\ (pc = "save" \/ pc = "exit") =>
                /\ Len(log) = W * H
                /\ DOMAIN pixels = Cells
                /\ \A c \in Cells : Cardinality(EntriesOf(c)) = 1

C8_Witness == pc = "save" /\ W = 9 /\ H = 2 /\ Len(log) = 18

(* C9: the palette maps each index occurring in a palette-entry match to    *)
(* the (R, G, B, A) of the last match with that index and has no other      *)
(* entry; without any match it is empty and extraction does not fail for    *)
(* that.                                                                    *)
Pal == file.content.pal
DecValue(ds) == IF Len(ds) = 1 THEN ds[1] ELSE 10 * ds[1] + ds[2]
MatchIndex(k) == DecValue(Pal[k].index)
MatchColor(k) == <<HexValue(Pal[k].r), HexValue(Pal[k].g),
                   HexValue(Pal[k].b), HexValue(Pal[k].a)>>

C9_PaletteScan ==
    Extracted =>
        /\ DOMAIN Colors = {MatchIndex(k) : k \in 1..Len(Pal)}
        /\ \A k \in 1..Len(Pal) :
              (\A j \in (k + 1)..Len(Pal) : MatchIndex(j) # MatchIndex(k))
                 => Colors[MatchIndex(k)] = MatchColor(k)
        /\ Pal = <<>> => Colors = <<>>

C9_Witness ==
    /\ Extracted /\ Len(Pal) = 2 /\ MatchIndex(1) = MatchIndex(2)
    /\ MatchColor(1) # MatchColor(2) /\ Colors[MatchIndex(1)] = MatchColor(2)

C9_WitnessEmpty == Extracted /\ Pal = <<>> /\ Colors = <<>> /\ pc = "exit" /\ exitStatus = 0

(* C10: the decoded grid does not depend on stream content no pixel maps    *)
(* to: a descriptor with the same width, height and palette whose stream    *)
(* differs only in the padding bits of each row's last byte (the bits below *)
(* 7 - ((width-1) mod 8)) or in bytes at offsets >= height*ceil(width/8)    *)
(* decodes to the grid this run produced.                                   *)
PadBits == 7 - ((W - 1) % 8)
Pixelled == H * Stride(W)
IsRowLast(o) == o % Stride(W) = Stride(W) - 1
Kept == IF Len(Data) < Pixelled THEN Len(Data) ELSE Pixelled

\* s2 differs from the stream only where no pixel maps
SameWherePixelsMap(s2) ==
    /\ (IF Len(s2) < Pixelled THEN Len(s2) ELSE Pixelled) = Kept
    /\ \A o \in 0..(Kept - 1) :
          IF IsRowLast(o)
          THEN s2[o + 1] \div (2 ^ PadBits) = Data[o + 1] \div (2 ^ PadBits)
          ELSE s2[o + 1] = Data[o + 1]

\* streams with the padding bits all set or all cleared, and the bytes
\* beyond the last row dropped, replaced or extended
Variants ==
    {[i \in 1..l |->
        IF i <= Kept
        THEN IF IsRowLast(i - 1)
             THEN (Data[i] \div (2 ^ PadBits)) * (2 ^ PadBits) + pad * ((2 ^ PadBits) - 1)
             ELSE Data[i]
        ELSE tail] :
        pad \in {0, 1}, tail \in {0, 255},
        l \in IF Len(Data) < Pixelled THEN {Len(Data)}
              ELSE {Pixelled, Len(Data), Len(Data) + 1}}

DecodeOf(s2) ==
    [c \in Cells |-> PixelStep([bitmap_info EXCEPT !.bitmap_data = s2], c[1], c[2]).color]

C10_PaddingIgnored ==
    (pc = "save" /\ W > 0 /\ H > 0) =>
        \A s2 \in Variants : SameWherePixelsMap(s2) /\ DecodeOf(s2) = pixels

C10_Witness ==
    /\ pc = "save" /\ W = 4 /\ H = 2 /\ Len(Data) = 3
    /\ \E s2 \in Variants : Len(s2) = 3 /\ s2[1] # Data[1] /\ s2[3] # Data[3]
                           /\ DecodeOf(s2) = pixels
    /\ \E s2 \in Variants : Len(s2) = 2 /\ DecodeOf(s2) = pixels

====
